---- MODULE Spec2Model ----
(***************************************************************************)
(* Model of the mesh client of canary-bot (src/mesh/client.go): the        *)
(* connection cache (initClient / closeClient), Join, ping, NodeDiscovery, *)
(* pushSamples and Rtt, run by concurrent workers over a shared client     *)
(* cache and a shared state store.                                         *)
(*                                                                         *)
(* Strings are sequences of byte codes, so that concatenation, decimal     *)
(* formatting and hashing are computed, not assumed.  A 32-bit unsigned    *)
(* value is a pair <<hi, lo>> of 16-bit halves.                            *)
(***************************************************************************)
EXTENDS Integers, Sequences, FiniteSets, TLC

\* ------------------------------------------------------------- bounds
\* longest candidate list handed to Join
MaxTargets == 2
\* longest node list of a JoinMesh response
MaxNodes == 2
\* monotonic clock readings of one Rtt round are ticks 0..MaxTick
MaxTick == 1
\* nanoseconds per tick (two decimal digits, so formatting is exercised)
TickNanos == 12
\* wall clock readings (unix seconds) are 0..MaxUnix
MaxUnix == 1
\* connections orphaned by an overwritten cache entry are counted up to here
MaxLeaked == 1

\* ------------------------------------------------------------ strings
\* "m": setupConfig.Name of the local node
ConfigName == <<109>>
\* "s": setupConfig.JoinAddress of the local node
ConfigJoinAddress == <<115>>
\* "a", "b": addresses of peers
PeerTargets == {<<97>>, <<98>>}
\* "n", "o": names peers give themselves and each other
PeerNames == {<<110>>, <<111>>}
EmptyString == <<>>

\* strconv.FormatInt(n, 10) for n >= 0
RECURSIVE FormatInt(_)
FormatInt(n) ==
    IF n < 10 THEN <<48 + n>> ELSE FormatInt(n \div 10) \o <<48 + (n % 10)>>

\* the number a decimal string denotes
RECURSIVE ParseInt(_)
ParseInt(s) ==
    IF Len(s) = 0 THEN 0
    ELSE 10 * ParseInt(SubSeq(s, 1, Len(s) - 1)) + (s[Len(s)] - 48)

\* ------------------------------------------------------------ hashing
RECURSIVE XorBits(_, _, _)
XorBits(a, b, n) ==
    IF n = 0 THEN 0
    ELSE (((a % 2) + (b % 2)) % 2) + 2 * XorBits(a \div 2, b \div 2, n - 1)

\* FNV-1a offset basis 0x811C9DC5
FnvOffset == <<33052, 40389>>

\* one round of 32-bit FNV-1a: h := (h XOR byte) * 0x01000193 mod 2^32
FnvStep(h, byte) ==
    LET lo1 == (h[2] - (h[2] % 256)) + XorBits(h[2] % 256, byte, 8)
        p   == lo1 * 403
    IN  << ((lo1 % 256) * 256 + h[1] * 403 + (p \div 65536)) % 65536, p % 65536 >>

RECURSIVE FnvFold(_, _)
FnvFold(h, s) ==
    IF Len(s) = 0 THEN h ELSE FnvFold(FnvStep(h, Head(s)), Tail(s))

Fnv1a(s) == FnvFold(FnvOffset, s)

\* the strings the model hashes, hashed once
HashTable ==
    [s \in PeerTargets \cup {ConfigJoinAddress}
           \cup {ConfigName \o n \o <<48 + k>> : n \in PeerNames, k \in 1..2}
       |-> Fnv1a(s)]

\* helper.Hash: the 32-bit hash of a string
Hash(s) == IF s \in DOMAIN HashTable THEN HashTable[s] ELSE Fnv1a(s)

\* the id of a node: the hash of its target alone
GetId(n) == Hash(n.Target)

\* a variant: the sample's value takes part in the id
GetSampleIdWithValue(s) == Hash(s.From \o s.To \o FormatInt(s.Key) \o s.Value)
\* the id of a sample: the hash of from ++ to ++ decimal(key)
GetSampleId(s) == Hash(s.From \o s.To \o FormatInt(s.Key))


\* ------------------------------------------------------- data package
NODE_OK == 1
NODE_TIMEOUT_RETRY == 2
NodeStates == {NODE_OK, NODE_TIMEOUT_RETRY}

RTT_TOTAL == 1
RTT_REQUEST == 2

\* meshv1.Node values: what travels on the wire
WireNode(name, target) == [Name |-> name, Target |-> target]

\* a variant: the name takes part in the id
ConvertHashingName(n, state) ==
    [Id |-> Hash(n.Name \o n.Target), Name |-> n.Name, Target |-> n.Target,
     State |-> state, StateChangeTs |-> 0]
\* data.Convert(meshNode, state): the store's record of a wire node
Convert(n, state) ==
    [Id |-> GetId(n), Name |-> n.Name, Target |-> n.Target,
     State |-> state, StateChangeTs |-> 0]

\* a variant: the state travels with the wire node
NodeConvertWithState(n) == [Name |-> n.Name, Target |-> n.Target, State |-> n.State]
\* Node.Convert(): the wire form of a stored node
NodeConvert(n) == [Name |-> n.Name, Target |-> n.Target]

\* Database.SetNode: upsert by id
SetNode(db, n) == {x \in db : x.Id # n.Id} \cup {n}

\* Database.SetSample: the id is derived from the sample, then upsert by id
SetSample(db, s) ==
    LET r == [Id |-> GetSampleId(s), From |-> s.From, To |-> s.To,
              Key |-> s.Key, Value |-> s.Value, Ts |-> s.Ts]
    IN  {x \in db : x.Id # r.Id} \cup {r}

\* Database.GetSampleList
GetSampleList(db) == db

\* Database.GetRandomNodeListByState(state, 1): the nodes one of which is
\* returned; the call returns nil when there is none
GetRandomNodeListByState(db, state) == {n \in db : n.State = state}

\* the upserts of a sequence of node records, in order
RECURSIVE SetNodes(_, _)
SetNodes(db, recs) ==
    IF Len(recs) = 0 THEN db ELSE SetNodes(SetNode(db, Head(recs)), Tail(recs))

\* --------------------------------------------------------------- state
VARIABLES
    clients,    \* m.clients: node id -> MeshClient
    mu,         \* m.mu: 0 when free, else the worker that locked it
    leaked,     \* open connections no cache entry or worker refers to
    nodes,      \* the store's node table
    samples,    \* the store's sample table
    thr,        \* per worker: the operation it runs and where it is in it
    crashed,    \* "" or the reason the process died
    last        \* the operation that ended in the last step, with what it did

vars == <<clients, mu, leaked, nodes, samples, thr, crashed, last>>

Threads == {1, 2}

NoNode == [Name |-> EmptyString, Target |-> EmptyString]
NoRes == [NameUnique |-> FALSE, MyName |-> EmptyString, Nodes |-> <<>>]

\* the local node as sent in requests and compared in Join
LocalNode == WireNode(ConfigName, ConfigJoinAddress)

\* nodes an operation is called for
ArgNodes == {WireNode(EmptyString, t) : t \in PeerTargets}

\* nodes a JoinMesh response may list: peers, and the joining node itself
ListNodes ==
    {WireNode(n, t) : n \in PeerNames, t \in PeerTargets} \cup {LocalNode}

RECURSIVE SeqsUpTo(_, _)
SeqsUpTo(S, n) ==
    IF n = 0 THEN {<<>>}
    ELSE LET shorter == SeqsUpTo(S, n - 1)
         IN  shorter \cup {Append(q, x) : q \in shorter, x \in S}

TargetLists == SeqsUpTo(PeerTargets, MaxTargets)

Responses ==
    [NameUnique : BOOLEAN, MyName : PeerNames, Nodes : SeqsUpTo(ListNodes, MaxNodes)]

\* the responses Join is given: it reads neither the name nor the list of a
\* response that says the name is taken, so short lists stand for those
JoinResponses == {r \in Responses : r.NameUnique \/ Len(r.Nodes) <= 1}

\* a worker between operations
Idle ==
    [pc |-> "idle", op |-> "none", to |-> NoNode, targets |-> <<>>, index |-> 0,
     att |-> <<>>]

\* no operation ended in the last step
NoLast ==
    [op |-> "none", how |-> "none", to |-> NoNode, targets |-> <<>>, att |-> <<>>,
     ret |-> "none", res |-> NoRes, ups |-> <<>>, repl |-> FALSE, obs |-> <<>>,
     sel |-> NoNode, times |-> <<>>]

\* the record of an operation as it ends: how is "return", "panic" or, for a
\* call that never comes back, "blocked"
EndedAs(r, how, ret) ==
    [NoLast EXCEPT !.op = r.op, !.how = how, !.to = r.to, !.targets = r.targets,
                   !.att = r.att, !.ret = ret]

Ended(r, ret) == EndedAs(r, "return", ret)

Init ==
    /\ clients = <<>>
    /\ mu = 0
    /\ leaked = 0
    /\ nodes = {}
    /\ samples = {}
    /\ thr = [t \in Threads |-> Idle]
    /\ crashed = ""
    /\ last = NoLast

Alive == crashed = ""
CanStart(t) == Alive /\ thr[t].pc = "idle"

\* the worker goes on with its operation
Step(t, r) ==
    /\ thr' = [thr EXCEPT ![t] = r]
    /\ last' = NoLast

\* the worker's operation returns
Return(t, g) ==
    /\ thr' = [thr EXCEPT ![t] = Idle]
    /\ last' = g

\* an unrecovered panic or a fatal runtime error ends the process
Panic(t, r, reason) ==
    /\ crashed' = reason
    /\ thr' = [thr EXCEPT ![t] = [r EXCEPT !.pc = "panic"]]
    /\ last' = EndedAs(r, "panic", "none")

\* the record of one attempt to reach a target
Attempt(tg, dial) == [tg |-> tg, dial |-> dial, rpc |-> "none"]
WithRpc(att, rpc) == [att EXCEPT ![Len(att)].rpc = rpc]

\* ---------------------------------------------------------------- Join
\* lines 59 and 76: index != len(targets)-1 (indices here start at 1)
\* a variant: every candidate counts as the last one
JoinIsLastAlways(index, targets) == index >= 1
JoinIsLast(index, targets) == index = Len(targets)

\* lines 63 and 80
JoinReturnExhausted == <<FALSE, TRUE>>
\* line 86
JoinReturnNotUnique == <<TRUE, FALSE>>
\* a variant: the second value is false after a join
JoinReturnJoinedFalse == <<TRUE, FALSE>>
\* line 104
JoinReturnJoined == <<TRUE, TRUE>>

\* lines 57-64 and 74-81: try the next candidate, or give up after the last
JoinOnError(t, r) ==
    IF ~JoinIsLast(r.index, r.targets)
    THEN Step(t, [r EXCEPT !.pc = "ic_check", !.index = @ + 1,
                           !.to = WireNode(EmptyString, r.targets[r.index + 1])])
    ELSE Return(t, Ended(r, JoinReturnExhausted))

\* a variant: no listed node is taken for the local node
JoinIsLocalNever(n) == FALSE
\* line 97: the listed node is the local node
JoinIsLocal(n) == GetId(n) = GetId(LocalNode)

\* lines 96-103: the records of the listed nodes that are upserted, in order
RECURSIVE JoinListed(_)
JoinListed(ns) ==
    IF Len(ns) = 0 THEN <<>>
    ELSE (IF JoinIsLocal(Head(ns)) THEN <<>> ELSE <<Convert(Head(ns), NODE_OK)>>)
         \o JoinListed(Tail(ns))

\* lines 90-91: the record of the candidate that answered
JoinCandidate(node, res) == Convert(WireNode(res.MyName, node.Target), NODE_OK)

\* a variant: the upserts are done whatever the response says of the name
JoinUpsertsAnyway(node, res) ==
    <<JoinCandidate(node, res)>> \o JoinListed(res.Nodes)
\* lines 84-104: what Join does with a JoinMesh response
JoinUpserts(node, res) ==
    IF ~res.NameUnique THEN <<>>
    ELSE <<JoinCandidate(node, res)>> \o JoinListed(res.Nodes)

JoinReturn(res) ==
    IF ~res.NameUnique THEN JoinReturnNotUnique ELSE JoinReturnJoined

\* what initClient's error means to each caller (lines 57, 110, 131, 153)
OnInitError(t, r) ==
    CASE r.op = "Join" -> JoinOnError(t, r)
      [] r.op = "NodeDiscovery" -> Return(t, Ended(r, "void"))
      [] OTHER -> Return(t, Ended(r, "err"))

StartJoin(t) ==
    /\ CanStart(t)
    /\ \E targets \in TargetLists :
         \/ /\ targets = <<>>
            \* no iteration: line 96 reads res.Nodes of a nil response
            /\ Panic(t, [Idle EXCEPT !.op = "Join"], "nil pointer dereference")
         \/ /\ targets # <<>>
            /\ Step(t, [Idle EXCEPT !.pc = "ic_check", !.op = "Join",
                                    !.targets = targets, !.index = 1,
                                    !.to = WireNode(EmptyString, targets[1])])
            /\ UNCHANGED crashed
    /\ UNCHANGED <<clients, mu, leaked, nodes, samples>>

\* lines 67-104: the JoinMesh call through the cached client and what follows
JoinCall(t) ==
    LET r == thr[t] IN
    /\ Alive /\ r.pc = "call" /\ r.op = "Join"
    /\ \/ /\ GetId(r.to) \notin DOMAIN clients
          /\ Panic(t, r, "nil pointer dereference")
          /\ UNCHANGED nodes
       \/ /\ GetId(r.to) \in DOMAIN clients
          /\ JoinOnError(t, [r EXCEPT !.att = WithRpc(@, "fail")])
          /\ UNCHANGED <<nodes, crashed>>
       \/ /\ GetId(r.to) \in DOMAIN clients
          /\ \E res \in JoinResponses :
               LET recs == JoinUpserts(r.to, res) IN
               /\ nodes' = SetNodes(nodes, recs)
               /\ Return(t, [Ended([r EXCEPT !.att = WithRpc(@, "ok")],
                                   JoinReturn(res))
                               EXCEPT !.res = res, !.ups = recs])
          /\ UNCHANGED crashed
    /\ UNCHANGED <<clients, mu, leaked, samples>>

\* ---------------------------------------------------------- initClient
\* lines 185-205: look the id up; dial when it is absent
\* line 189: h.LoadClientTLSCredentials returns credentials or an error
Credentials == {"loaded", "failed"}

\* a variant: without credentials initClient gives up
InitClientTransportStrict(cr) == IF cr = "loaded" THEN "tls" ELSE "error"
\* lines 189-195: the transport dialed with; insecure when the credentials
\* cannot be loaded
InitClientTransport(cr) == IF cr = "loaded" THEN "tls" ELSE "insecure"

\* the record of a dial over a transport
DialAttempt(tg, dial, transport) ==
    [tg |-> tg, dial |-> dial, rpc |-> "none", transport |-> transport]

InitClientCheck(t) ==
    LET r == thr[t] IN
    /\ Alive /\ r.pc = "ic_check"
    /\ \/ /\ GetId(r.to) \in DOMAIN clients
          /\ Step(t, [r EXCEPT !.pc = "call",
                               !.att = Append(@, Attempt(r.to.Target, "cached"))])
       \/ /\ GetId(r.to) \notin DOMAIN clients
          /\ \E cr \in Credentials :
               LET tr == InitClientTransport(cr) IN
               \/ /\ tr = "error"
                  /\ OnInitError(t, [r EXCEPT !.att =
                         Append(@, DialAttempt(r.to.Target, "none", tr))])
               \/ /\ tr # "error"
                  /\ Step(t, [r EXCEPT !.pc = "ic_lock", !.att =
                         Append(@, DialAttempt(r.to.Target, "ok", tr))])
               \/ /\ tr # "error"
                  /\ OnInitError(t, [r EXCEPT !.att =
                         Append(@, DialAttempt(r.to.Target, "fail", tr))])
    /\ UNCHANGED <<clients, mu, leaked, nodes, samples, crashed>>

\* line 209
InitClientLock(t) ==
    /\ Alive /\ thr[t].pc = "ic_lock"
    /\ mu = 0
    /\ mu' = t
    /\ Step(t, [thr[t] EXCEPT !.pc = "ic_write"])
    /\ UNCHANGED <<clients, leaked, nodes, samples, crashed>>

\* lines 210-214: store the client, release the lock
InitClientWrite(t) ==
    LET r == thr[t]
        id == GetId(r.to)
    IN
    /\ Alive /\ r.pc = "ic_write"
    /\ clients' = [x \in DOMAIN clients \cup {id} |->
                     IF x = id THEN [Target |-> r.to.Target] ELSE clients[x]]
    \* an entry written meanwhile is replaced; its connection stays open
    /\ leaked' = IF id \in DOMAIN clients /\ leaked < MaxLeaked
                 THEN leaked + 1 ELSE leaked
    /\ mu' = 0
    /\ Step(t, [r EXCEPT !.pc = "call"])
    /\ UNCHANGED <<nodes, samples, crashed>>

\* ---------------------------------------------- ping, discovery, push
StartPing(t) ==
    /\ CanStart(t)
    /\ \E n \in ArgNodes :
         Step(t, [Idle EXCEPT !.pc = "ic_check", !.op = "ping", !.to = n])
    /\ UNCHANGED <<clients, mu, leaked, nodes, samples, crashed>>

\* lines 114-125
PingCall(t) ==
    LET r == thr[t] IN
    /\ Alive /\ r.pc = "call" /\ r.op = "ping"
    /\ \/ /\ GetId(r.to) \notin DOMAIN clients
          /\ Panic(t, r, "nil pointer dereference")
       \/ /\ GetId(r.to) \in DOMAIN clients
          /\ \E ok \in BOOLEAN :
               Return(t, Ended([r EXCEPT !.att = WithRpc(@, IF ok THEN "ok" ELSE "fail")],
                               IF ok THEN "nil" ELSE "err"))
          /\ UNCHANGED crashed
    /\ UNCHANGED <<clients, mu, leaked, nodes, samples>>

StartNodeDiscovery(t) ==
    /\ CanStart(t)
    \* newNode only travels in the request
    /\ \E toNode \in ArgNodes, newNode \in ListNodes :
         Step(t, [Idle EXCEPT !.pc = "ic_check", !.op = "NodeDiscovery",
                              !.to = toNode])
    /\ UNCHANGED <<clients, mu, leaked, nodes, samples, crashed>>

\* lines 135-147
NodeDiscoveryCall(t) ==
    LET r == thr[t] IN
    /\ Alive /\ r.pc = "call" /\ r.op = "NodeDiscovery"
    /\ \/ /\ GetId(r.to) \notin DOMAIN clients
          /\ Panic(t, r, "nil pointer dereference")
       \/ /\ GetId(r.to) \in DOMAIN clients
          /\ \E ok \in BOOLEAN :
               Return(t, Ended([r EXCEPT !.att = WithRpc(@, IF ok THEN "ok" ELSE "fail")],
                               "void"))
          /\ UNCHANGED crashed
    /\ UNCHANGED <<clients, mu, leaked, nodes, samples>>

\* lines 150-156: initClient comes first
StartPushSamples(t) ==
    /\ CanStart(t)
    /\ \E n \in ArgNodes :
         Step(t, [Idle EXCEPT !.pc = "ic_check", !.op = "pushSamples", !.to = n])
    /\ UNCHANGED <<clients, mu, leaked, nodes, samples, crashed>>

\* lines 158-173
PushSamplesCall(t) ==
    LET r == thr[t] IN
    /\ Alive /\ r.pc = "call" /\ r.op = "pushSamples"
    /\ \/ /\ Cardinality(GetSampleList(samples)) = 0
          /\ Return(t, Ended(r, "nil"))
          /\ UNCHANGED crashed
       \/ /\ Cardinality(GetSampleList(samples)) # 0
          /\ GetId(r.to) \notin DOMAIN clients
          /\ Panic(t, r, "nil pointer dereference")
       \/ /\ Cardinality(GetSampleList(samples)) # 0
          /\ GetId(r.to) \in DOMAIN clients
          /\ \E ok \in BOOLEAN :
               Return(t, Ended([r EXCEPT !.att = WithRpc(@, IF ok THEN "ok" ELSE "fail")],
                               IF ok THEN "nil" ELSE "err"))
          /\ UNCHANGED crashed
    /\ UNCHANGED <<clients, mu, leaked, nodes, samples>>

\* --------------------------------------------------------- closeClient
StartCloseClient(t) ==
    /\ CanStart(t)
    /\ \E n \in ArgNodes :
         Step(t, [Idle EXCEPT !.pc = "cc_lock", !.op = "closeClient", !.to = n])
    /\ UNCHANGED <<clients, mu, leaked, nodes, samples, crashed>>

\* line 238
CloseClientLock(t) ==
    /\ Alive /\ thr[t].pc = "cc_lock"
    /\ mu = 0
    /\ mu' = t
    /\ Step(t, [thr[t] EXCEPT !.pc = "cc_body"])
    /\ UNCHANGED <<clients, leaked, nodes, samples, crashed>>

\* lines 239-246
CloseClientBody(t) ==
    LET r == thr[t]
        id == GetId(r.to)
    IN
    /\ Alive /\ r.pc = "cc_body"
    /\ \/ /\ id \notin DOMAIN clients
          \* m.clients[id] is nil: .conn dereferences it
          /\ Panic(t, [r EXCEPT !.att = <<Attempt(r.to.Target, "absent")>>],
                   "nil pointer dereference")
          /\ UNCHANGED <<clients, mu>>
       \/ /\ id \in DOMAIN clients
          \* conn.Close() fails: return err, the lock is still held
          /\ Return(t, Ended([r EXCEPT !.att = <<Attempt(r.to.Target, "cached")>>],
                             "err"))
          /\ UNCHANGED <<clients, mu, crashed>>
       \/ /\ id \in DOMAIN clients
          /\ clients' = [x \in DOMAIN clients \ {id} |-> clients[x]]
          /\ mu' = 0
          /\ Return(t, Ended([r EXCEPT !.att = <<Attempt(r.to.Target, "cached")>>],
                             "nil"))
          /\ UNCHANGED crashed
    /\ UNCHANGED <<leaked, nodes, samples>>

\* whether the worker's next step reads m.clients without holding m.mu
ReadsClients(t) ==
    \/ thr[t].pc = "ic_check"
    \/ /\ thr[t].pc = "call"
       /\ ~(thr[t].op = "pushSamples" /\ Cardinality(GetSampleList(samples)) = 0)

\* a map read while another goroutine writes the map under the lock: the Go
\* runtime may end the process ("concurrent map read and map write"); when
\* it does not, the read goes on as the worker's own step
MapRaceCrash(t) ==
    /\ Alive /\ ReadsClients(t)
    /\ \E u \in Threads \ {t} : thr[u].pc \in {"ic_write", "cc_body"}
    /\ Panic(t, thr[t], "concurrent map read and map write")
    /\ UNCHANGED <<clients, mu, leaked, nodes, samples>>

\* ----------------------------------------------------------------- Rtt
\* a variant: the total is measured from the start of the request
RttTotalFromRequest(t0, t1, t2) == (t2 - t1) * TickNanos
\* line 310
RttTotal(t0, t1, t2) == (t2 - t0) * TickNanos
\* line 312
RttRequest(t0, t1, t2) == (t2 - t1) * TickNanos

\* lines 319-337
RttSample(to, key, nanos, ts) ==
    [From |-> ConfigName, To |-> to, Key |-> key, Value |-> FormatInt(nanos),
     Ts |-> ts]

\* lines 315-316
RttObservation(key, name, nanos) == [key |-> key, name |-> name, nanos |-> nanos]

\* lines 281, 297, 302: three readings of the monotonic clock, in order,
\* counted from the first one
RttTicks ==
    {tk \in {0} \X (0..MaxTick) \X (0..MaxTick) : tk[2] <= tk[3]}

\* lines 325, 335: two readings of the wall clock, in order
RttUnix == {u \in (0..MaxUnix) \X (0..MaxUnix) : u[1] <= u[2]}

\* a variant: Rtt asks for the nodes that are being retried
RttStateRetry == NODE_TIMEOUT_RETRY
\* line 255: the state Rtt asks the store for
RttState == NODE_OK

\* a variant: the measured connection is put in the cache
RttClientsCached(cl, node) ==
    [x \in DOMAIN cl \cup {GetId(node)} |->
       IF x = GetId(node) THEN [Target |-> node.Target] ELSE cl[x]]
\* lines 283-300: conn and client are local variables; m.clients is not used
RttClients(cl, node) == cl

\* a variant: the connection is closed only after a successful call
RttDeferredOnSuccess(dial, rpc) ==
    CASE dial # "ok" -> "none"
      [] rpc = "ok" -> "closed"
      [] OTHER -> "open"
\* line 284: defer conn.Close(), registered before err is looked at: it runs
\* whenever Rtt ends after line 284, on a nil conn when the dial failed
RttDeferred(dial, rpc) == IF dial = "ok" THEN "closed" ELSE "panic"

\* a connection left open with nothing referring to it
Leak(n, conn) == IF conn = "open" /\ n < MaxLeaked THEN n + 1 ELSE n

Rtt(t) ==
    /\ CanStart(t)
    /\ LET ok == GetRandomNodeListByState(nodes, RttState)
           r == [Idle EXCEPT !.op = "Rtt"]
       IN
       \/ /\ ok = {}
          /\ Return(t, Ended(r, "void"))
          /\ UNCHANGED <<clients, leaked, samples, crashed>>
       \/ \E node \in ok :
            \* grpc.Dial fails: conn is nil, Rtt returns at line 287 and the
            \* deferred conn.Close() runs
            LET d == [r EXCEPT !.to = WireNode(node.Name, node.Target),
                               !.att = <<[tg |-> node.Target, dial |-> "fail",
                                          rpc |-> "none",
                                          conn |-> RttDeferred("fail", "none")]>>]
            IN  /\ IF RttDeferred("fail", "none") = "panic"
                   THEN Panic(t, d, "nil pointer dereference")
                   ELSE Return(t, Ended(d, "void")) /\ UNCHANGED crashed
                /\ clients' = RttClients(clients, node)
                /\ UNCHANGED <<leaked, samples>>
       \/ \E node \in ok :
            \* grpc.WithBlock without a deadline: the peer never answers
            /\ LET b == [r EXCEPT !.pc = "blocked",
                                  !.to = WireNode(node.Name, node.Target),
                                  !.att = <<[tg |-> node.Target, dial |-> "block",
                                             rpc |-> "none", conn |-> "none"]>>]
               IN  /\ thr' = [thr EXCEPT ![t] = b]
                   /\ last' = [EndedAs(b, "blocked", "none") EXCEPT !.sel = node]
            /\ UNCHANGED <<clients, leaked, samples, crashed>>
       \/ \E node \in ok :
            \* the Rtt call fails; the deferred conn.Close() closes the connection
            /\ Return(t, [Ended([r EXCEPT !.to = WireNode(node.Name, node.Target),
                                          !.att = <<[tg |-> node.Target,
                                                     dial |-> "ok", rpc |-> "fail",
                                                     conn |-> RttDeferred("ok", "fail")]>>],
                                "void")
                            EXCEPT !.sel = node])
            /\ clients' = RttClients(clients, node)
            /\ leaked' = Leak(leaked, RttDeferred("ok", "fail"))
            /\ UNCHANGED <<samples, crashed>>
       \/ \E node \in ok, ticks \in RttTicks, unix \in RttUnix :
            /\ LET t0 == ticks[1]
                   t1 == ticks[2]
                   t2 == ticks[3]
                   ts1 == unix[1]
                   ts2 == unix[2]
                   s1 == RttSample(node.Name, RTT_TOTAL, RttTotal(t0, t1, t2), ts1)
                   s2 == RttSample(node.Name, RTT_REQUEST, RttRequest(t0, t1, t2), ts2)
               IN
               /\ samples' = SetSample(SetSample(samples, s1), s2)
               /\ Return(t, [Ended([r EXCEPT !.to = WireNode(node.Name, node.Target),
                                             !.att = <<[tg |-> node.Target,
                                                        dial |-> "ok", rpc |-> "ok",
                                                        conn |-> RttDeferred("ok", "ok")]>>],
                                   "void")
                               EXCEPT !.sel = node,
                                      !.times = <<t0, t1, t2>>,
                                      !.ups = <<s1, s2>>,
                                      !.repl = \E x \in samples :
                                                 /\ x.Id = GetSampleId(s1)
                                                 /\ x.Value # s1.Value,
                                      !.obs = <<RttObservation(RTT_TOTAL, node.Name,
                                                               RttTotal(t0, t1, t2)),
                                                RttObservation(RTT_REQUEST, node.Name,
                                                               RttRequest(t0, t1, t2))>>])
            /\ clients' = RttClients(clients, node)
            /\ leaked' = Leak(leaked, RttDeferred("ok", "ok"))
            /\ UNCHANGED crashed
    /\ UNCHANGED <<mu, nodes>>

\* ------------------------------------------------------- environment
\* the external scheduler's health evaluation changes a node's state
SetNodeState ==
    /\ Alive
    /\ \E n \in nodes :
         \E st \in NodeStates \ {n.State} :
           nodes' = SetNode(nodes, [n EXCEPT !.State = st])
    /\ last' = NoLast
    /\ UNCHANGED <<clients, mu, leaked, samples, thr, crashed>>

\* ------------------------------------------------------- conversions
\* the wire nodes, states and stored nodes the conversions are applied to
ConvertNames == PeerNames \cup {ConfigName, EmptyString}
ConvertTargets == PeerTargets \cup {ConfigJoinAddress}
ConvertStates == NodeStates \cup {0, 3, 12}
ConvertIds(target) == {Hash(target), <<0, 1>>}
FullNodes ==
    UNION {[Id : ConvertIds(tg), Name : ConvertNames, Target : {tg},
            State : ConvertStates, StateChangeTs : 0..MaxUnix] :
             tg \in ConvertTargets}

\* Convert(meshNode, state) is applied to a wire node
ConvertWire ==
    /\ Alive /\ last.op = "none"
    /\ \E name \in ConvertNames, tg \in ConvertTargets, state \in ConvertStates :
         last' = [NoLast EXCEPT !.op = "Convert", !.how = "return",
                                !.to = WireNode(name, tg), !.ret = state,
                                !.ups = <<Convert(WireNode(name, tg), state)>>]
    /\ UNCHANGED <<clients, mu, leaked, nodes, samples, thr, crashed>>

\* n.Convert() is applied to two stored nodes of one name and target
ConvertNodes ==
    /\ Alive /\ last.op = "none"
    /\ \E x \in FullNodes :
         \E y \in {z \in FullNodes : z.Name = x.Name /\ z.Target = x.Target} :
           last' = [NoLast EXCEPT !.op = "Node.Convert", !.how = "return",
                                  !.ups = <<x, y>>,
                                  !.obs = <<NodeConvert(x), NodeConvert(y)>>]
    /\ UNCHANGED <<clients, mu, leaked, nodes, samples, thr, crashed>>

\* ------------------------------------------------------ specifications
\* Spec: both workers ping, notify, push samples and close clients.  The
\* stores are empty, or hold what a Join and an Rtt round have left.
JoinedNodes == SetNode({}, Convert(WireNode(<<110>>, <<97>>), NODE_OK))
MeasuredSamples ==
    SetSample(SetSample({}, RttSample(<<110>>, RTT_TOTAL, RttTotal(0, 0, 1), 0)),
              RttSample(<<110>>, RTT_REQUEST, RttRequest(0, 0, 1), 0))

InitStored ==
    /\ clients = <<>>
    /\ mu = 0
    /\ leaked = 0
    /\ \E st \in {<<{}, {}>>, <<JoinedNodes, MeasuredSamples>>} :
         nodes = st[1] /\ samples = st[2]
    /\ thr = [t \in Threads |-> Idle]
    /\ crashed = ""
    /\ last = NoLast

Next ==
    \/ \E t \in Threads : StartPing(t)
    \/ \E t \in Threads : PingCall(t)
    \/ \E t \in Threads : StartNodeDiscovery(t)
    \/ \E t \in Threads : NodeDiscoveryCall(t)
    \/ \E t \in Threads : StartPushSamples(t)
    \/ \E t \in Threads : PushSamplesCall(t)
    \/ \E t \in Threads : StartCloseClient(t)
    \/ \E t \in Threads : InitClientCheck(t)
    \/ \E t \in Threads : InitClientLock(t)
    \/ \E t \in Threads : InitClientWrite(t)
    \/ \E t \in Threads : CloseClientLock(t)
    \/ \E t \in Threads : CloseClientBody(t)
    \/ \E t \in Threads : MapRaceCrash(t)

Spec == InitStored /\ [][Next]_vars

\* SpecJoin: one worker joins the mesh, one Join after the other, while the
\* scheduler re-evaluates the nodes' health.
Solo == CHOOSE t \in Threads : \A u \in Threads : t <= u

NextJoin ==
    \/ StartJoin(Solo)
    \/ JoinCall(Solo)
    \/ InitClientCheck(Solo)
    \/ InitClientLock(Solo)
    \/ InitClientWrite(Solo)
    \/ SetNodeState

SpecJoin == Init /\ [][NextJoin]_vars

\* SpecRtt: one worker measures round-trip times, one round after the other,
\* against the nodes a Join has stored, while the scheduler re-evaluates the
\* nodes' health.
JoinedStores ==
    {S \in SUBSET {Convert(WireNode(n, t), NODE_OK) : n \in PeerNames, t \in PeerTargets} :
       \A x, y \in S : x.Id = y.Id => x = y}

InitJoined ==
    /\ clients = <<>>
    /\ mu = 0
    /\ leaked = 0
    /\ nodes \in JoinedStores
    /\ samples = {}
    /\ thr = [t \in Threads |-> Idle]
    /\ crashed = ""
    /\ last = NoLast

NextRtt ==
    \/ Rtt(Solo)
    \/ SetNodeState

SpecRtt == InitJoined /\ [][NextRtt]_vars

\* SpecRttCache: one worker pings peers through the client cache and
\* measures round-trip times, one operation after the other.
InitMeasured ==
    /\ clients = <<>>
    /\ mu = 0
    /\ leaked = 0
    /\ nodes = JoinedNodes
    /\ samples = {}
    /\ thr = [t \in Threads |-> Idle]
    /\ crashed = ""
    /\ last = NoLast

NextRttCache ==
    \/ Rtt(Solo)
    \/ StartPing(Solo)
    \/ InitClientCheck(Solo)
    \/ InitClientLock(Solo)
    \/ InitClientWrite(Solo)
    \/ PingCall(Solo)

SpecRttCache == InitMeasured /\ [][NextRttCache]_vars

\* SpecConvert: the conversions between wire nodes and stored nodes, one
\* application per behaviour, over every input within the bounds.
NextConvert ==
    \/ ConvertWire
    \/ ConvertNodes

SpecConvert == Init /\ [][NextConvert]_vars

\* ------------------------------------------------------------- claims
\* what the properties below read from the record of the ended operation
JoinReturned == last.op = "Join" /\ last.how = "return"
AttemptFailed(a) == a.dial = "fail" \/ a.rpc = "fail"
\* the attempts went to the first candidates of the list, one each, in order
TriedInOrder(att, targets) ==
    /\ Len(att) <= Len(targets)
    /\ \A i \in 1..Len(att) : att[i].tg = targets[i]
AllAttemptsFailed == \A i \in 1..Len(last.att) : AttemptFailed(last.att[i])
AllTriedAndFailed ==
    /\ Len(last.att) = Len(last.targets)
    /\ TriedInOrder(last.att, last.targets)
    /\ AllAttemptsFailed
\* Join returned after a candidate answered the JoinMesh call
JoinAnswered ==
    /\ JoinReturned
    /\ last.att # <<>>
    /\ last.att[Len(last.att)].rpc = "ok"
JoinAnsweredUnique == JoinAnswered /\ last.res.NameUnique
JoinAnsweredTaken == JoinAnswered /\ ~last.res.NameUnique

\* C1, as stated: Join tries the candidates in order until one yields a
\* connection and a JoinMesh response; the second result is true only if
\* every candidate was tried and none was usable, and a join under a
\* unique name returns (true, false).
C1_AsStated ==
    JoinReturned =>
        /\ last.ret[2] = TRUE => AllTriedAndFailed
        /\ JoinAnsweredUnique => last.ret = <<TRUE, FALSE>>

\* C1, amended: Join tries the candidates in order; it returns joined =
\* false, then with true as second value, only if every candidate was tried
\* and none was usable; a join under a unique name returns (true, true); the
\* second value is false only when the answering candidate reports the name
\* as taken.
C1_JoinResults ==
    JoinReturned =>
        /\ TriedInOrder(last.att, last.targets)
        /\ last.ret[1] = FALSE => AllTriedAndFailed /\ last.ret[2] = TRUE
        /\ JoinAnsweredUnique => last.ret = <<TRUE, TRUE>>
        /\ last.ret[2] = FALSE => JoinAnsweredTaken
        /\ AllAttemptsFailed => last.ret = <<FALSE, TRUE>>

\* a second candidate answers with a unique name after the first one failed
C1_Witness ==
    /\ JoinAnsweredUnique
    /\ Len(last.att) = 2
    /\ AttemptFailed(last.att[1])
    /\ last.ret = <<TRUE, TRUE>>

\* C2: when every candidate of a non-empty list fails (connection or
\* JoinMesh call), Join has tried each exactly once and in list order, going
\* on to the next after each failure but the last, returns (false, true)
\* after the last one, and no step of it changes the node store.
C2_StateInv ==
    /\ \A t \in Threads :
         thr[t].op = "Join" /\ thr[t].targets # <<>> =>
           /\ TriedInOrder(thr[t].att, thr[t].targets)
           /\ Len(thr[t].att) \in {thr[t].index - 1, thr[t].index}
           /\ \A i \in 1..(thr[t].index - 1) : AttemptFailed(thr[t].att[i])
    /\ JoinReturned /\ AllAttemptsFailed =>
         /\ AllTriedAndFailed
         /\ last.ret = <<FALSE, TRUE>>
         /\ last.ups = <<>>
C2_StoreKept ==
    (thr' # thr /\ ~JoinAnsweredUnique') => nodes' = nodes
C2_AllCandidatesFail == []C2_StateInv /\ [][C2_StoreKept]_vars

\* two candidates, the first fails to connect, the second fails the call
C2_Witness ==
    /\ JoinReturned
    /\ Len(last.targets) = 2
    /\ Len(last.att) = 2
    /\ last.att[1].dial = "fail"
    /\ last.att[2].rpc = "fail"
    /\ last.ret = <<FALSE, TRUE>>

\* C3: when a candidate answers JoinMesh with nameUnique = false, Join
\* returns (true, false) at once: no later candidate is contacted, even if
\* some remain, and no node is upserted, whatever the response lists.
C3_StateInv ==
    JoinAnsweredTaken =>
        /\ last.ret = <<TRUE, FALSE>>
        /\ last.ups = <<>>
        /\ TriedInOrder(last.att, last.targets)
        /\ \A i \in 1..(Len(last.att) - 1) : AttemptFailed(last.att[i])
        /\ \A t \in Threads : thr[t].op # "Join"
C3_NoUpsert == JoinAnsweredTaken' => nodes' = nodes
C3_NameTaken == []C3_StateInv /\ [][C3_NoUpsert]_vars

\* the first of two candidates reports the name as taken and lists a node
C3_Witness ==
    /\ JoinAnsweredTaken
    /\ Len(last.targets) = 2
    /\ Len(last.att) = 1
    /\ Len(last.res.Nodes) = 1
    /\ last.ret = <<TRUE, FALSE>>

\* the records C4 speaks of, written out from the response
C4_Candidate ==
    [Id |-> Hash(last.att[Len(last.att)].tg), Name |-> last.res.MyName,
     Target |-> last.att[Len(last.att)].tg, State |-> NODE_OK, StateChangeTs |-> 0]
C4_NotLocal(n) == Hash(n.Target) # Hash(ConfigJoinAddress)
C4_Record(n) ==
    [Id |-> Hash(n.Target), Name |-> n.Name, Target |-> n.Target,
     State |-> NODE_OK, StateChangeTs |-> 0]
C4_Listed == SelectSeq(last.res.Nodes, C4_NotLocal)
C4_Expected ==
    <<C4_Candidate>> \o [i \in 1..Len(C4_Listed) |-> C4_Record(C4_Listed[i])]

\* C4, as stated: after a join under a unique name the store holds the
\* candidate (its target, the name the response assigns, state OK) and
\* every listed node whose id is not the local node's, each in state OK;
\* the listed entry with the local node's id is not upserted.
C4_AsStated ==
    JoinAnsweredUnique =>
        /\ \A i \in 1..Len(C4_Expected) : C4_Expected[i] \in nodes
        /\ \A x \in nodes : x.Id # Hash(ConfigJoinAddress)

\* C4, amended: after a join under a unique name the store holds, for each
\* id, the last record upserted for it, the upserts being the candidate
\* (its target, the name the response assigns, state OK) and then the
\* listed nodes whose id is not the local node's, in list order, each in
\* state OK: a record is in the store unless a later one has the same id.
\* The listed entry with the local node's id is not upserted.
C4_JoinUpserts ==
    JoinAnsweredUnique =>
        /\ \A i \in 1..Len(C4_Expected) :
             (\A j \in (i + 1)..Len(C4_Expected) :
                C4_Expected[j].Id # C4_Expected[i].Id)
             => C4_Expected[i] \in nodes
        /\ \A x \in nodes : x.Id # Hash(ConfigJoinAddress)
        /\ \A x, y \in nodes : x.Id = y.Id => x = y

\* the response lists the local node and a peer other than the candidate
C4_Witness ==
    /\ JoinAnsweredUnique
    /\ Len(last.res.Nodes) = 2
    /\ \E i \in 1..2 : last.res.Nodes[i] = LocalNode
    /\ \E i \in 1..2 :
         /\ last.res.Nodes[i] # LocalNode
         /\ last.res.Nodes[i].Target # last.att[Len(last.att)].tg
    /\ Cardinality(nodes) = 2

\* C5: pushSamples with no sample in the store returns nil at once: no
\* connection is looked for or made, no PushSamples call is sent.
C5_EmptyPush ==
    (last.op = "pushSamples" /\ samples = {}) =>
        /\ last.how = "return"
        /\ last.ret = "nil"
        /\ last.att = <<>>

\* C6: closeClient closes and evicts the cached connection of the node
\* when there is one; when there is none it returns an error and leaves the
\* cache as it was.
C6_CloseClient ==
    last.op = "closeClient" =>
        /\ last.how = "return"
        /\ (last.att[1].dial = "cached" /\ last.ret = "nil") =>
             Hash(last.to.Target) \notin DOMAIN clients
        /\ last.att[1].dial = "absent" => last.ret = "err"

\* C7: an Rtt round that finds no node in state OK returns without dialing,
\* without a sample and without an observation; a round that dials, dials
\* the target of a node the store holds in state OK.
C7_StateInv ==
    last.op = "Rtt" =>
        /\ (\A n \in nodes : n.State # NODE_OK) =>
             /\ last.how = "return"
             /\ last.att = <<>>
             /\ last.ups = <<>>
             /\ last.obs = <<>>
        /\ last.att # <<>> =>
             /\ Len(last.att) = 1
             /\ \E n \in nodes :
                  /\ n.State = NODE_OK
                  /\ n.Target = last.att[1].tg
                  /\ n.Name = last.to.Name
C7_NoSample ==
    (last'.op = "Rtt" /\ \A n \in nodes : n.State # NODE_OK) => samples' = samples
C7_OnlyOkNodes == []C7_StateInv /\ [][C7_NoSample]_vars

\* a round over a store whose only nodes are not in state OK
C7_Witness ==
    /\ last.op = "Rtt"
    /\ last.how = "return"
    /\ nodes # {}
    /\ \A n \in nodes : n.State # NODE_OK
    /\ last.att = <<>>

RttSucceeded ==
    /\ last.op = "Rtt"
    /\ last.how = "return"
    /\ last.att # <<>>
    /\ last.att[1].rpc = "ok"
\* the stored sample of a (from, to, key)
Stored(from, to, key) ==
    {s \in samples : s.From = from /\ s.To = to /\ s.Key = key}

\* C8: a successful Rtt round stores exactly two samples from the local node
\* to the chosen peer: RTT_TOTAL with the nanoseconds from before the
\* connection was opened to the end of the call, RTT_REQUEST with the
\* nanoseconds from the start to the end of the call, both as decimal
\* strings, and the total is at least the request.
C8_TwoSamples ==
    RttSucceeded =>
        LET t0 == last.times[1]
            t1 == last.times[2]
            t2 == last.times[3]
        IN  /\ Len(last.ups) = 2
            /\ \A i \in 1..2 :
                 /\ last.ups[i].From = ConfigName
                 /\ last.ups[i].To = last.sel.Name
                 /\ \A c \in 1..Len(last.ups[i].Value) :
                      last.ups[i].Value[c] \in 48..57
            /\ last.ups[1].Key = RTT_TOTAL
            /\ last.ups[2].Key = RTT_REQUEST
            /\ ParseInt(last.ups[1].Value) = (t2 - t0) * TickNanos
            /\ ParseInt(last.ups[2].Value) = (t2 - t1) * TickNanos
            /\ ParseInt(last.ups[1].Value) >= ParseInt(last.ups[2].Value)
            /\ \E s \in Stored(ConfigName, last.sel.Name, RTT_TOTAL) :
                 s.Value = last.ups[1].Value
            /\ \E s \in Stored(ConfigName, last.sel.Name, RTT_REQUEST) :
                 s.Value = last.ups[2].Value

\* the connection took a tick to open, the call took none
C8_Witness ==
    /\ RttSucceeded
    /\ last.times = <<0, 1, 1>>
    /\ ParseInt(last.ups[1].Value) > ParseInt(last.ups[2].Value)

\* C9: NodeDiscovery sends one fire-and-forget call to the target about the
\* new node; errors of connection or call are swallowed and nothing comes
\* back to the caller.
C9_NodeDiscovery ==
    last.op = "NodeDiscovery" =>
        /\ last.how = "return"
        /\ last.ret = "void"
        /\ Len(last.att) = 1
        /\ last.ups = <<>>

\* C10: the id of a stored sample is the hash of from ++ to ++ decimal(key)
\* and of nothing else, so the store holds at most one sample per (from, to,
\* key), and after a round it carries the values that round upserted.
C10_SampleId ==
    /\ \A s \in samples :
         s.Id = Fnv1a(s.From \o s.To \o FormatInt(s.Key))
    /\ \A x, y \in samples :
         (x.From = y.From /\ x.To = y.To /\ x.Key = y.Key) => x = y
    /\ RttSucceeded =>
         \A i \in 1..Len(last.ups) :
           \E s \in samples :
             /\ s.From = last.ups[i].From
             /\ s.To = last.ups[i].To
             /\ s.Key = last.ups[i].Key
             /\ s.Value = last.ups[i].Value
             /\ s.Ts = last.ups[i].Ts

\* a round replaces the total of an earlier round by a different value
C10_Witness ==
    /\ RttSucceeded
    /\ last.repl
    /\ Cardinality(Stored(ConfigName, last.sel.Name, RTT_TOTAL)) = 1

\* C11: converting a wire node {name, target} with a state s yields the
\* node with id = hash of the target alone, whatever the name, the same
\* name and target, state s and state_change_ts 0.
C11_Convert ==
    last.op = "Convert" =>
        LET r == last.ups[1] IN
        /\ DOMAIN r = {"Id", "Name", "Target", "State", "StateChangeTs"}
        /\ r.Id = Fnv1a(last.to.Target)
        /\ r.Name = last.to.Name
        /\ r.Target = last.to.Target
        /\ r.State = last.ret
        /\ r.StateChangeTs = 0

\* a named wire node is converted with a state other than OK
C11_Witness ==
    /\ last.op = "Convert"
    /\ last.to.Name = ConfigName
    /\ last.to.Target = <<97>>
    /\ last.ret = 12
    /\ last.ups[1].Id = <<58380, 10540>>

\* C12: converting a stored node to wire form yields exactly {name,
\* target}: two nodes of one name and target that differ in id, state or
\* state_change_ts convert to the same wire node.
C12_WireForm ==
    last.op = "Node.Convert" =>
        /\ \A i \in 1..2 :
             /\ DOMAIN last.obs[i] = {"Name", "Target"}
             /\ last.obs[i].Name = last.ups[i].Name
             /\ last.obs[i].Target = last.ups[i].Target
        /\ last.obs[1] = last.obs[2]

\* the two nodes differ in id, in state and in state_change_ts
C12_Witness ==
    /\ last.op = "Node.Convert"
    /\ last.ups[1].Id # last.ups[2].Id
    /\ last.ups[1].State # last.ups[2].State
    /\ last.ups[1].StateChangeTs # last.ups[2].StateChangeTs
    /\ last.obs[1] = last.obs[2]

\* C13: Rtt never creates, reads, replaces or removes an entry of the
\* client cache: whatever the outcome of a round, the cache is after it what
\* it was before, and the connection measured is dialed afresh, also when a
\* client is cached for the target.
C13_RttStep ==
    last'.op = "Rtt" =>
        /\ clients' = clients
        /\ last'.att # <<>> => last'.att[1].dial \in {"ok", "fail", "block"}
C13_CacheUntouched == [][C13_RttStep]_vars

\* a round succeeded against a target the cache has no client for, while
\* the cache holds a client of another target
C13_Witness ==
    /\ RttSucceeded
    /\ clients # <<>>
    /\ Hash(last.att[1].tg) \notin DOMAIN clients

\* C16: every connection Rtt establishes is closed when Rtt returns,
\* whether the call over it succeeded or failed; no round leaves an open
\* connection behind.
C16_StateInv ==
    (last.op = "Rtt" /\ last.how = "return" /\ last.att # <<>>
       /\ last.att[1].dial = "ok")
    => last.att[1].conn = "closed"
C16_NoLeak == last'.op = "Rtt" => leaked' = leaked
C16_ConnectionClosed == []C16_StateInv /\ [][C16_NoLeak]_vars

\* a round whose call failed after the connection was established
C16_Witness ==
    /\ last.op = "Rtt"
    /\ last.how = "return"
    /\ last.att # <<>>
    /\ last.att[1].dial = "ok"
    /\ last.att[1].rpc = "fail"
    /\ last.att[1].conn = "closed"
    /\ leaked = 0

\* C15: when the connection cannot be established or the call fails, Rtt
\* returns normally, having written no sample and emitted no observation.
C15_FailedRound ==
    (last.op = "Rtt" /\ last.att # <<>>
       /\ (last.att[1].dial = "fail" \/ last.att[1].rpc = "fail"))
    => /\ last.how = "return"
       /\ last.ups = <<>>
       /\ last.obs = <<>>

\* C14: concurrent initClient calls for one id with no client cached act
\* as one critical section: at most one connection is dialed for the id,
\* and no open connection is left outside the cache.
C14_SingleDial ==
    /\ leaked = 0
    /\ \A t, u \in Threads :
         (t # u /\ thr[t].pc \in {"ic_lock", "ic_write"}
                /\ thr[u].pc \in {"ic_lock", "ic_write"})
         => Hash(thr[t].to.Target) # Hash(thr[u].to.Target)

\* what the step of initClient before the lock does, for worker t
C17_InitClient(t) ==
    LET cached == Hash(thr[t].to.Target) \in DOMAIN clients
        ended == thr'[t].pc = "idle"
        att == IF ended THEN last'.att ELSE thr'[t].att
        a == att[Len(att)]
    IN  /\ clients' = clients
        /\ Len(att) = Len(thr[t].att) + 1
        /\ a.tg = thr[t].to.Target
        /\ cached => ~ended /\ thr'[t].pc = "call" /\ a.dial = "cached"
        /\ ~cached =>
             /\ a.dial \in {"ok", "fail"}
             /\ a.transport \in {"tls", "insecure"}
             /\ ended <=> a.dial = "fail"
             /\ ended => last'.how = "return" /\ last'.ret \in {"err", "void"}
             /\ ~ended => thr'[t].pc = "ic_lock"

\* C17: initClient returns an error exactly when the dial fails: without
\* credentials it dials over an insecure transport and goes on; a failed
\* dial is returned at once, without a retry and without a cache entry; with
\* a client cached for the id nothing is dialed and the cache is unchanged.
C17_Step ==
    \A t \in Threads :
      (thr[t].pc = "ic_check" /\ thr'[t] # thr[t] /\ crashed' = "")
      => C17_InitClient(t)
C17_ErrorIffDialFails == [][C17_Step]_vars

\* a dial over the insecure transport succeeded and initClient goes on
C17_Witness ==
    \E t \in Threads :
      /\ thr[t].pc = "ic_lock"
      /\ thr[t].att[Len(thr[t].att)].dial = "ok"
      /\ thr[t].att[Len(thr[t].att)].transport = "insecure"

\* C18: closeClient releases the lock of the client cache on every path on
\* which it returns, also when closing the connection fails: the lock is
\* held only by a worker inside initClient's or closeClient's locked lines.
C18_LockReleased ==
    (crashed = "" /\ mu # 0) => thr[mu].pc \in {"ic_write", "cc_body"}

\* C19: in ping, pushSamples, NodeDiscovery and Join, once initClient has
\* returned without error, the lookup of the node's id in the client cache
\* finds an entry, whatever a concurrent closeClient does: no operation
\* uses a missing entry.
C19_EntryFound ==
    ~ /\ last.op \in {"ping", "pushSamples", "NodeDiscovery", "Join"}
      /\ last.how = "panic"
      /\ crashed = "nil pointer dereference"
      /\ last.att # <<>>
      /\ last.att[Len(last.att)].dial \in {"ok", "cached"}
      /\ Hash(last.to.Target) \notin DOMAIN clients

\* C20: Join ends by returning a pair for every candidate list; with the
\* empty list it contacts nobody, leaves the store as it is and does not
\* use a response it never received.
C20_JoinTerminates ==
    last.op = "Join" =>
        /\ last.how = "return"
        /\ last.ret \in BOOLEAN \X BOOLEAN
        /\ last.targets = <<>> => last.att = <<>> /\ last.ups = <<>>

====
